---- MODULE Spec2Model ----
(***************************************************************************)
(* Event rasterization (lib/representations/image.py) as a state machine.  *)
(* A state holds one event batch (the inputs of a call), the last call     *)
(* made with its keyword arguments, and what the call returned or raised.  *)
(*                                                                         *)
(* Numbers.  Coordinates lie on a lattice of 1/Sub pixel and are held as   *)
(* integer counts of 1/Sub.  Every grid value is an exact rational <<n,d>> *)
(* in lowest terms with d > 0, so that the count-normalised outputs and    *)
(* the epsilon of the timestamp normalisation are computed, not rounded.   *)
(*                                                                         *)
(* Grids.  A tensor is [shape, fill, cells]: cells maps the index pairs    *)
(* <<row, col>> whose value differs from fill to that value.  Two tensors  *)
(* are equal as TLA+ values iff the arrays are equal cell by cell.         *)
(***************************************************************************)
EXTENDS Integers, Sequences, FiniteSets, TLC

\* ------------------------------------------------------------------ bounds
Sub == 4
MaxEvents == 2
SensorH == 2
SensorW == 3
MaxTime == 10

\* ------------------------------------------------------- program constants
DefaultSensorH == 180
DefaultSensorW == 240
EpsilonInv == 1000000

\* --------------------------------------------------------------- rationals
Abs(n) == IF n < 0 THEN -n ELSE n

RECURSIVE GCD(_, _)
GCD(a, b) == IF b = 0 THEN a ELSE GCD(b, a % b)

\* n/d in lowest terms, d > 0 (d # 0 is required)
RNorm(n, d) ==
    LET g == GCD(Abs(n), Abs(d))
        s == IF d < 0 THEN -1 ELSE 1
    IN  <<(s * n) \div g, Abs(d) \div g>>

RInt(n) == <<n, 1>>
RZero == RInt(0)
ROne == RInt(1)

RAdd(a, b) ==
    IF a[2] = 1 /\ b[2] = 1 THEN <<a[1] + b[1], 1>>
    ELSE IF a[1] = 0 THEN b
    ELSE IF b[1] = 0 THEN a
    ELSE LET g == GCD(a[2], b[2])
         IN  RNorm(a[1] * (b[2] \div g) + b[1] * (a[2] \div g), (a[2] \div g) * b[2])

RNeg(a) == <<-a[1], a[2]>>
RSub(a, b) == RAdd(a, RNeg(b))

RMul(a, b) ==
    IF a[1] = 0 \/ b[1] = 0 THEN RZero
    ELSE IF a[2] = 1 /\ b[2] = 1 THEN <<a[1] * b[1], 1>>
    ELSE IF a = ROne THEN b
    ELSE IF b = ROne THEN a
    ELSE LET g1 == GCD(Abs(a[1]), b[2])
             g2 == GCD(Abs(b[1]), a[2])
         IN  RNorm((a[1] \div g1) * (b[1] \div g2), (a[2] \div g2) * (b[2] \div g1))

\* IEEE division: x/0 is inf or nan, held as <<sign, 0>>; never an exception
RDiv(a, b) ==
    IF b[1] = 0 THEN <<(IF a[1] > 0 THEN 1 ELSE IF a[1] < 0 THEN -1 ELSE 0), 0>>
    ELSE RMul(a, RNorm(b[2], b[1]))

RIsFinite(a) == a[2] # 0

RECURSIVE RSumSeq(_)
RSumSeq(s) == IF s = <<>> THEN RZero ELSE RAdd(Head(s), RSumSeq(Tail(s)))

\* ------------------------------------------- coordinates on the 1/Sub lattice
\* floor(): TLA+ \div rounds toward minus infinity
Floor(c) == c \div Sub
\* .long() of a float: truncation toward zero
Trunc(c) == IF c >= 0 THEN c \div Sub ELSE -((-c) \div Sub)
\* x - floor(x)
Frac(c) == RNorm(c - Sub * Floor(c), Sub)
IsWhole(c) == c % Sub = 0

\* ----------------------------------------------------------------- tensors
Ok(v) == [raised |-> "none", val |-> v]
Raise(e) == [raised |-> e, val |-> <<>>]

NoCells == [i \in {} |-> RZero]

\* The identity on functions and on sequences.  TLC keeps a function constructor
\* unevaluated and evaluates its body at every application; these make it a value.
Fn(f) == f @@ NoCells
Sq(s) == s \o <<>>

\* torch.ones(shape)*v, torch.zeros(shape), np.ones_like(img)*v
Full(shape, v) == [shape |-> shape, fill |-> v, cells |-> NoCells]

Get(t, r, c) == IF <<r, c>> \in DOMAIN t.cells THEN t.cells[<<r, c>>] ELSE t.fill

NumCells(t) == t.shape[1] * t.shape[2]

\* the value of cell i, i an index pair
At(t, i) == IF i \in DOMAIN t.cells THEN t.cells[i] ELSE t.fill

\* the tensor holding vals[i] at every i of DOMAIN vals and fill elsewhere
Tensor(shape, fill, vals) ==
    [shape |-> shape, fill |-> fill,
     cells |-> Fn([i \in {j \in DOMAIN vals : vals[j] # fill} |-> vals[i]])]

\* the cells that may differ from the fill in an elementwise result over a and b
Support(a, b) == (DOMAIN a.cells) \cup (DOMAIN b.cells)

\* sum of every cell of the array
SumCells(t) ==
    LET RECURSIVE S(_)
        S(D) == IF D = {} THEN RZero
                ELSE LET i == CHOOSE j \in D : TRUE IN RAdd(t.cells[i], S(D \ {i}))
    IN  RAdd(RMul(t.fill, RInt(NumCells(t) - Cardinality(DOMAIN t.cells))), S(DOMAIN t.cells))

\* an index of torch/numpy advanced indexing: -n <= i < n, negative counts from the end
InRange(i, n) == -n <= i /\ i < n
Wrap(i, n) == IF i < 0 THEN i + n ELSE i

\* t.index_put_((rows, cols), vals, accumulate=True) on a tensor-or-exception
index_put_(res, rows, cols, vals) ==
    IF res.raised # "none" THEN res
    ELSE LET t == res.val
             R == t.shape[1]
             C == t.shape[2]
             K == 1..Len(rows)
         IN  IF \E k \in K : ~InRange(rows[k], R) \/ ~InRange(cols[k], C)
             THEN Raise("IndexError")
             ELSE LET idx == Sq([k \in K |-> <<Wrap(rows[k], R), Wrap(cols[k], C)>>])
                      touched == (DOMAIN t.cells) \cup {idx[k] : k \in K}
                      old(i) == IF i \in DOMAIN t.cells THEN t.cells[i] ELSE t.fill
                      add(i) == RSumSeq(Sq([k \in K |-> IF idx[k] = i THEN vals[k] ELSE RZero]))
                      new == Fn([i \in touched |-> RAdd(old(i), add(i))])
                      dom == {i \in touched : new[i] # t.fill}
                  IN  Ok([shape |-> t.shape, fill |-> t.fill, cells |-> Fn([i \in dom |-> new[i]])])

\* ------------------------------------------------------ the bilinear kernel
Plus1(s) == Sq([k \in 1..Len(s) |-> s[k] + 1])
Compl(s) == Sq([k \in 1..Len(s) |-> RSub(ROne, s[k])])
Times(a, b) == Sq([k \in 1..Len(a) |-> RMul(a[k], b[k])])

\* the kernel with dxs and 1-dxs exchanged in the taps of the upper row
interpolate_to_image_swapped(pxs, pys, dxs, dys, weights, img) ==
    LET a == index_put_(img, pys, pxs, Times(Times(weights, dxs), Compl(dys)))
        b == index_put_(a, pys, Plus1(pxs), Times(Times(weights, Compl(dxs)), Compl(dys)))
        c == index_put_(b, Plus1(pys), pxs, Times(Times(weights, Compl(dxs)), dys))
    IN  index_put_(c, Plus1(pys), Plus1(pxs), Times(Times(weights, dxs), dys))

interpolate_to_image(pxs, pys, dxs, dys, weights, img) ==
    LET a == index_put_(img, pys, pxs, Times(Times(weights, Compl(dxs)), Compl(dys)))
        b == index_put_(a, pys, Plus1(pxs), Times(Times(weights, dxs), Compl(dys)))
        c == index_put_(b, Plus1(pys), pxs, Times(Times(weights, Compl(dxs)), dys))
    IN  index_put_(c, Plus1(pys), Plus1(pxs), Times(Times(weights, dxs), dys))

\* --------------------------------------------------- clipping / masking
None == "None"
Bilinear == "bilinear"

Padded(sensor_size) == <<sensor_size[1] + 1, sensor_size[2] + 1>>

\* mask[k] = where(xs >= clipx, 0, 1) * where(ys >= clipy, 0, 1); all ones without clipping
clip_mask(xs, ys, img_size, clip_out_of_range, interpolation, padding) ==
    LET clipx == IF interpolation = None /\ ~padding THEN img_size[2] ELSE img_size[2] - 1
        clipy == IF interpolation = None /\ ~padding THEN img_size[1] ELSE img_size[1] - 1
    IN  Sq([k \in 1..Len(xs) |->
            IF clip_out_of_range
            THEN (IF xs[k] >= clipx * Sub THEN 0 ELSE 1) * (IF ys[k] >= clipy * Sub THEN 0 ELSE 1)
            ELSE 1])

FloorMasked(cs, mask) == Sq([k \in 1..Len(cs) |-> Floor(cs[k]) * mask[k]])
TruncMasked(cs, mask) == Sq([k \in 1..Len(cs) |-> Trunc(cs[k]) * mask[k]])
FloorOf(cs) == Sq([k \in 1..Len(cs) |-> Floor(cs[k])])
FracOf(cs) == Sq([k \in 1..Len(cs) |-> Frac(cs[k])])
Masked(ws, mask) == Sq([k \in 1..Len(ws) |-> RMul(ws[k], RInt(mask[k]))])
OnesLike(s) == Sq([k \in 1..Len(s) |-> ROne])

\* ------------------------------------------------------ events_to_image_torch
\* xs, ys: coordinates in 1/Sub; dtype: "long" (integer tensors) or "float"; ps: rationals
events_to_image_torch(xs, ys, ps, dtype, sensor_size, clip_out_of_range, interpolation, padding, default) ==
    LET img_size == IF interpolation = Bilinear /\ padding THEN Padded(sensor_size) ELSE sensor_size
        mask == clip_mask(xs, ys, img_size, clip_out_of_range, interpolation, padding)
        img == Ok(Full(img_size, default))
    IN  IF interpolation = Bilinear /\ dtype # "long"
        THEN interpolate_to_image(FloorMasked(xs, mask), FloorMasked(ys, mask),
                                  FracOf(xs), FracOf(ys), Masked(ps, mask), img)
        ELSE index_put_(img, TruncMasked(ys, mask), TruncMasked(xs, mask), ps)

\* ------------------------------------------------------------ events_to_image
\* img[img == 0] = default
FillZeros(t, default) ==
    LET F(v) == IF v = RZero THEN default ELSE v
    IN  Tensor(t.shape, F(t.fill), Fn([i \in DOMAIN t.cells |-> F(t.cells[i])]))

\* np.divide(img, cnt, out=np.ones_like(img)*default, where=cnt != 0)
divide_where(img, cnt, default) ==
    IF img.shape # cnt.shape THEN Raise("ValueError")
    ELSE LET F(a, b) == IF b # RZero THEN RDiv(a, b) ELSE default
         IN  Ok(Tensor(img.shape, F(img.fill, cnt.fill),
                       Fn([i \in Support(img, cnt) |-> F(At(img, i), At(cnt, i))])))

\* np.ravel_multi_index((ys, xs), sensor_size) accepts the coordinates
RavelOk(xs, ys, sensor_size) ==
    \A k \in 1..Len(xs) :
        /\ 0 <= Floor(ys[k]) /\ Floor(ys[k]) < sensor_size[1]
        /\ 0 <= Floor(xs[k]) /\ Floor(xs[k]) < sensor_size[2]

\* np.bincount(abs_coords, weights=ws, minlength=H*W).reshape(sensor_size)
bincount(xs, ys, ws, sensor_size) ==
    index_put_(Ok(Full(sensor_size, RZero)), FloorOf(ys), FloorOf(xs), ws).val

DefaultSensor == <<DefaultSensorH, DefaultSensorW>>

events_to_image(xs, ys, ps, dtype, sensor_size, interpolation, padding, meanval, default) ==
    IF interpolation = Bilinear
    THEN \* sensor_size is not handed on: the torch default (180, 240) is used
         LET r == events_to_image_torch(xs, ys, ps, "float", DefaultSensor, TRUE, Bilinear, padding, RZero)
             c == events_to_image_torch(xs, ys, OnesLike(xs), "float", DefaultSensor, TRUE, None, padding, RZero)
         IN  IF r.raised # "none" THEN r
             ELSE IF ~meanval THEN Ok(FillZeros(r.val, default))
             ELSE IF c.raised # "none" THEN c
             ELSE divide_where(FillZeros(r.val, default), c.val, default)
    ELSE IF dtype # "long" THEN Raise("TypeError")
    ELSE IF ~RavelOk(xs, ys, sensor_size) THEN Raise("ValueError")
    ELSE IF ~meanval THEN Ok(bincount(xs, ys, ps, sensor_size))
    ELSE divide_where(bincount(xs, ys, ps, sensor_size),
                      bincount(xs, ys, OnesLike(xs), sensor_size), default)

\* ------------------------------------------------------ image_to_event_weights
\* a read-out of the nearest lower pixel alone, img[pys, pxs]*mask
image_to_event_weights_nearest(xs, ys, img) ==
    LET R == img.shape[1]
        C == img.shape[2]
        K == 1..Len(xs)
        mask == Sq([k \in K |-> (IF xs[k] >= (C - 1) * Sub THEN 0 ELSE 1)
                                * (IF ys[k] >= (R - 1) * Sub THEN 0 ELSE 1)])
        pxs == Sq([k \in K |-> Floor(xs[k] * mask[k])])
        pys == Sq([k \in K |-> Floor(ys[k] * mask[k])])
    IN  IF \E k \in K : ~InRange(pys[k], R) \/ ~InRange(pxs[k], C)
        THEN Raise("IndexError")
        ELSE Ok(Sq([k \in K |-> RMul(Get(img, Wrap(pys[k], R), Wrap(pxs[k], C)), RInt(mask[k]))]))

\* the bilinear read-out of img at each (x, y); the result is a sequence of rationals
image_to_event_weights(xs, ys, img) ==
    LET R == img.shape[1]
        C == img.shape[2]
        K == 1..Len(xs)
        mask == Sq([k \in K |-> (IF xs[k] >= (C - 1) * Sub THEN 0 ELSE 1)
                                * (IF ys[k] >= (R - 1) * Sub THEN 0 ELSE 1)])
        pxs == Sq([k \in K |-> Floor(xs[k] * mask[k])])
        pys == Sq([k \in K |-> Floor(ys[k] * mask[k])])
        dxs == Sq([k \in K |-> RNorm(xs[k] - Sub * pxs[k], Sub)])
        dys == Sq([k \in K |-> RNorm(ys[k] - Sub * pys[k], Sub)])
        wxs == Compl(dxs)
        wys == Compl(dys)
        at(r, c) == Get(img, Wrap(r, R), Wrap(c, C))
        w(k) == RAdd(RAdd(RMul(RMul(at(pys[k], pxs[k]), wxs[k]), wys[k]),
                          RMul(RMul(at(pys[k], pxs[k] + 1), dxs[k]), wys[k])),
                     RAdd(RMul(RMul(at(pys[k] + 1, pxs[k]), wxs[k]), dys[k]),
                          RMul(RMul(at(pys[k] + 1, pxs[k] + 1), dxs[k]), dys[k])))
    IN  IF \E k \in K : \/ ~InRange(pys[k], R) \/ ~InRange(pys[k] + 1, R)
                        \/ ~InRange(pxs[k], C) \/ ~InRange(pxs[k] + 1, C)
        THEN Raise("IndexError")
        ELSE Ok(Sq([k \in K |-> RMul(w(k), RInt(mask[k]))]))

\* --------------------------------------------------------- events_to_image_drv
\* one channel of the gradient stack: w1, w2 are that channel's response vectors
derivative_channel(pxs, pys, dxs, dys, ch, w1, w2) ==
    LET K == 1..Len(pxs)
        a == index_put_(ch, pys, pxs,
                 Sq([k \in K |-> RAdd(RMul(w1[k], RNeg(RSub(ROne, dys[k]))), RMul(w2[k], RNeg(RSub(ROne, dxs[k]))))]))
        b == index_put_(a, pys, Plus1(pxs),
                 Sq([k \in K |-> RAdd(RMul(w1[k], RSub(ROne, dys[k])), RMul(w2[k], RNeg(dxs[k])))]))
        c == index_put_(b, Plus1(pys), pxs,
                 Sq([k \in K |-> RAdd(RMul(w1[k], RNeg(dys[k])), RMul(w2[k], RSub(ROne, dxs[k])))]))
    IN  index_put_(c, Plus1(pys), Plus1(pxs),
                 Sq([k \in K |-> RAdd(RMul(w1[k], dys[k]), RMul(w2[k], dxs[k]))]))

\* d_img, w1, w2 are sequences over the channels; the result is the stack or the exception
interpolate_to_derivative_img(pxs, pys, dxs, dys, d_img, w1, w2) ==
    LET chs == Sq([i \in 1..Len(d_img) |-> derivative_channel(pxs, pys, dxs, dys, Ok(d_img[i]), w1[i], w2[i])])
    IN  IF \E i \in 1..Len(chs) : chs[i].raised # "none"
        THEN Raise("IndexError")
        ELSE Ok(Sq([i \in 1..Len(chs) |-> chs[i].val]))

\* the result is [img, d_img]; d_img is <<>> when no gradient is asked for
events_to_image_drv(xs, ys, ps, jacobian_x, jacobian_y, sensor_size, clip_out_of_range, interpolation, padding, compute_gradient) ==
    LET img_size == IF padding THEN Padded(sensor_size) ELSE sensor_size
        mask == clip_mask(xs, ys, img_size, clip_out_of_range, interpolation, padding)
        pxs == FloorMasked(xs, mask)
        pys == FloorMasked(ys, mask)
        dxs == FracOf(xs)
        dys == FracOf(ys)
        masked_ps == Masked(ps, mask)
        img == interpolate_to_image(pxs, pys, dxs, dys, masked_ps, Ok(Full(img_size, RZero)))
        w1 == Sq([i \in 1..Len(jacobian_x) |-> Times(jacobian_x[i], masked_ps)])
        w2 == Sq([i \in 1..Len(jacobian_y) |-> Times(jacobian_y[i], masked_ps)])
        d_img == interpolate_to_derivative_img(pxs, pys, dxs, dys,
                     <<Full(img_size, RZero), Full(img_size, RZero)>>, w1, w2)
    IN  IF img.raised # "none" THEN img
        ELSE IF ~compute_gradient THEN Ok([img |-> img.val, d_img |-> <<>>])
        ELSE IF d_img.raised # "none" THEN d_img
        ELSE Ok([img |-> img.val, d_img |-> d_img.val])

\* ------------------------------------------------------------ timestamp images
Epsilon == RNorm(1, EpsilonInv)

pos_events_mask(ps) == Sq([k \in 1..Len(ps) |-> IF ps[k][1] > 0 THEN ROne ELSE RZero])
neg_events_mask(ps) == Sq([k \in 1..Len(ps) |-> IF ps[k][1] <= 0 THEN ROne ELSE RZero])

\* img_cnt[img_cnt == 0] = 1; img / img_cnt
CountNormalise(img, cnt) ==
    LET F(a, b) == RDiv(a, IF b = RZero THEN ROne ELSE b)
    IN  Tensor(img.shape, F(img.fill, cnt.fill),
               Fn([i \in Support(img, cnt) |-> F(At(img, i), At(cnt, i))]))

\* the four splats of one polarity pair and the two divisions; [img_pos, img_neg] or the exception
timestamp_surfaces(pxs, pys, dxs, dys, normalized_ts, ps, img_size) ==
    LET pos_weights == Times(normalized_ts, pos_events_mask(ps))
        neg_weights == Times(normalized_ts, neg_events_mask(ps))
        img_pos == interpolate_to_image(pxs, pys, dxs, dys, pos_weights, Ok(Full(img_size, RZero)))
        img_pos_cnt == interpolate_to_image(pxs, pys, dxs, dys, pos_events_mask(ps), Ok(Full(img_size, ROne)))
        img_neg == interpolate_to_image(pxs, pys, dxs, dys, neg_weights, Ok(Full(img_size, RZero)))
        img_neg_cnt == interpolate_to_image(pxs, pys, dxs, dys, neg_events_mask(ps), Ok(Full(img_size, ROne)))
    IN  IF img_pos.raised # "none" THEN img_pos
        ELSE Ok([img_pos |-> CountNormalise(img_pos.val, img_pos_cnt.val),
                 img_neg |-> CountNormalise(img_neg.val, img_neg_cnt.val)])

\* (ts - ts[0]) / (ts[-1] + 1e-6) on the timestamps already shifted by t0, or the shifted timestamps
normalize_np(ts, normalize_timestamps) ==
    LET tr == Sq([k \in 1..Len(ts) |-> RInt(ts[k] - ts[1])])
    IN  IF normalize_timestamps
        THEN Sq([k \in 1..Len(tr) |-> RDiv(RSub(tr[k], tr[1]), RAdd(tr[Len(tr)], Epsilon))])
        ELSE tr

\* (ts - ts[0]) / (ts[-1] - ts[0] + epsilon), or (-ts + ts[-1]) / (the same)
normalize_torch(ts, timestamp_reverse) ==
    LET n == Len(ts)
        range == RAdd(RInt(ts[n] - ts[1]), Epsilon)
    IN  IF timestamp_reverse
        THEN Sq([k \in 1..n |-> RDiv(RInt(ts[n] - ts[k]), range)])
        ELSE Sq([k \in 1..n |-> RDiv(RInt(ts[k] - ts[1]), range)])

\* ts: integer timestamps
events_to_timestamp_image(xs, ys, ts, ps, sensor_size, clip_out_of_range, interpolation, padding, normalize_timestamps) ==
    IF Len(ts) = 0 THEN Raise("IndexError")
    ELSE LET img_size == IF padding THEN Padded(sensor_size) ELSE sensor_size
             mask == clip_mask(xs, ys, img_size, clip_out_of_range, interpolation, padding)
         IN  timestamp_surfaces(FloorMasked(xs, mask), FloorMasked(ys, mask), FracOf(xs), FracOf(ys),
                                normalize_np(ts, normalize_timestamps), ps, img_size)

events_to_timestamp_image_torch(xs, ys, ts, ps, sensor_size, clip_out_of_range, interpolation, padding, timestamp_reverse) ==
    \* squeeze() turns a batch of one event into 0-dim tensors, and ts[-1] then raises
    IF Len(ts) <= 1 THEN Raise("IndexError")
    ELSE LET img_size == IF padding THEN Padded(sensor_size) ELSE sensor_size
             mask == clip_mask(xs, ys, img_size, clip_out_of_range, interpolation, padding)
         IN  timestamp_surfaces(FloorMasked(xs, mask), FloorMasked(ys, mask), FracOf(xs), FracOf(ys),
                                normalize_torch(ts, timestamp_reverse), ps, img_size)

\* ----------------------------------------------------------- the state machine
VARIABLES
    sensor_size,    \* <<H, W>>, the nominal grid shape handed to every call
    xs, ys,         \* event coordinates, in 1/Sub pixel
    ps,             \* event polarities / weights (integers)
    ts,             \* event timestamps (integers)
    dtype,          \* "long": xs, ys are integer arrays; "float": floating arrays
    fn,             \* the function called last, "none" before any call
    args,           \* the keyword arguments of that call
    out             \* Ok(value) or Raise(exception) of that call

vars == <<sensor_size, xs, ys, ps, ts, dtype, fn, args, out>>

\* ------------------------------------------------------------------- inputs
H == SensorH
W == SensorW
\* -1, 0, the fraction 1/Sub, the last column W-1, the first column off the sensor
XCoords == {-Sub, 0, 1, (W - 1) * Sub, W * Sub}
\* 0, a fraction, the first row off the sensor
YCoords == {0, 1, H * Sub}
Weights == {-1, 0, 1}
Polarities == {-1, 1}
\* coordinates on the sensor: 0, a fraction, the last column
InsideX == {0, 1, (W - 1) * Sub}
InsideY == {0, 1}
\* whole coordinates on the sensor, its last column and last row included
WholeX == {0, Sub, (W - 1) * Sub}
WholeY == {0, (H - 1) * Sub}
Defaults == {0, 1}
Sensors == {<<H, W>>}
Interpolations == {None, Bilinear}
DTypes == {"float", "long"}

Batches(XS, YS, PS) == UNION {[1..n -> [x : XS, y : YS, p : PS]] : n \in 0..MaxEvents}
\* all at MaxTime, or MaxTime apart from 0 on
Stamps(n) == {[k \in 1..n |-> MaxTime], [k \in 1..n |-> (k - 1) * MaxTime]}
NoStamps(n) == {[k \in 1..n |-> 0]}

R(s) == Sq([k \in 1..Len(s) |-> RInt(s[k])])

NoArgs == [interpolation |-> None, padding |-> FALSE, clip_out_of_range |-> FALSE,
           meanval |-> FALSE, default |-> 0, flag |-> FALSE]

\* the Jacobians of the two warp parameters: d(x)/d(a1) = 1, d(y)/d(a2) = 1
JacobianX(n) == <<Sq([k \in 1..n |-> ROne]), Sq([k \in 1..n |-> RZero])>>
JacobianY(n) == <<Sq([k \in 1..n |-> RZero]), Sq([k \in 1..n |-> ROne])>>

\* what the call f with keyword arguments a returns on the batch (X, Y, P, T)
Apply(f, a, X, Y, P, T, dt, ss) ==
    CASE f = "events_to_image" ->
            events_to_image(X, Y, R(P), dt, ss, a.interpolation, a.padding, a.meanval, RInt(a.default))
      [] f = "events_to_image_torch" ->
            events_to_image_torch(X, Y, R(P), dt, ss, a.clip_out_of_range, a.interpolation, a.padding, RInt(a.default))
      [] f = "interpolate_to_image" ->
            interpolate_to_image(FloorOf(X), FloorOf(Y), FracOf(X), FracOf(Y), R(P), Ok(Full(ss, RZero)))
      [] f = "events_to_image_drv" ->
            events_to_image_drv(X, Y, R(P), JacobianX(Len(X)), JacobianY(Len(X)), ss,
                                a.clip_out_of_range, a.interpolation, a.padding, a.flag)
      [] f = "events_to_timestamp_image" ->
            events_to_timestamp_image(X, Y, T, R(P), ss, a.clip_out_of_range, a.interpolation, a.padding, a.flag)
      [] f = "events_to_timestamp_image_torch" ->
            events_to_timestamp_image_torch(X, Y, T, R(P), ss, a.clip_out_of_range, a.interpolation, a.padding, a.flag)

InitOf(sensors, XS, YS, PS, dtypes, timed) ==
    /\ sensor_size \in sensors
    /\ \E b \in Batches(XS, YS, PS) :
          /\ xs = [k \in 1..Len(b) |-> b[k].x]
          /\ ys = [k \in 1..Len(b) |-> b[k].y]
          /\ ps = [k \in 1..Len(b) |-> b[k].p]
          /\ ts \in (IF timed THEN Stamps(Len(b)) ELSE NoStamps(Len(b)))
          /\ dtype \in {d \in dtypes : d = "long" => \A k \in 1..Len(b) : IsWhole(b[k].x) /\ IsWhole(b[k].y)}
    /\ fn = "none"
    /\ args = NoArgs
    /\ out = Raise("none")

Init == InitOf(Sensors, XCoords, YCoords, Weights, DTypes, TRUE)

Inputs == <<sensor_size, xs, ys, ps, ts, dtype>>

Call(f) ==
    /\ fn = "none"
    /\ fn' = f
    /\ out' = Apply(f, args', xs, ys, ps, ts, dtype, sensor_size)
    /\ UNCHANGED Inputs

Call_events_to_image ==
    /\ \E i \in Interpolations, pad \in BOOLEAN, mv \in BOOLEAN, d \in Defaults :
          args' = [NoArgs EXCEPT !.interpolation = i, !.padding = pad, !.meanval = mv, !.default = d]
    /\ Call("events_to_image")

Call_events_to_image_torch ==
    /\ \E c \in BOOLEAN, i \in Interpolations, pad \in BOOLEAN, d \in Defaults :
          args' = [NoArgs EXCEPT !.clip_out_of_range = c, !.interpolation = i, !.padding = pad, !.default = d]
    /\ Call("events_to_image_torch")

\* a caller splats the batch into a zero grid of the sensor's shape
Call_interpolate_to_image ==
    /\ args' = NoArgs
    /\ Call("interpolate_to_image")

\* the grid just splatted is read back at the batch's coordinates
Call_image_to_event_weights ==
    /\ fn = "interpolate_to_image"
    /\ out.raised = "none"
    /\ out' = image_to_event_weights(xs, ys, out.val)
    /\ fn' = "image_to_event_weights"
    /\ UNCHANGED <<Inputs, args>>

\* flag is compute_gradient
Call_events_to_image_drv ==
    /\ \E c \in BOOLEAN, i \in Interpolations, pad \in BOOLEAN, g \in BOOLEAN :
          args' = [NoArgs EXCEPT !.clip_out_of_range = c, !.interpolation = i, !.padding = pad, !.flag = g]
    /\ Call("events_to_image_drv")

\* flag is normalize_timestamps
Call_events_to_timestamp_image ==
    /\ \E c \in BOOLEAN, i \in Interpolations, pad \in BOOLEAN, nt \in BOOLEAN :
          args' = [NoArgs EXCEPT !.clip_out_of_range = c, !.interpolation = i, !.padding = pad, !.flag = nt]
    /\ Call("events_to_timestamp_image")

\* flag is timestamp_reverse
Call_events_to_timestamp_image_torch ==
    /\ \E c \in BOOLEAN, i \in Interpolations, pad \in BOOLEAN, rev \in BOOLEAN :
          args' = [NoArgs EXCEPT !.clip_out_of_range = c, !.interpolation = i, !.padding = pad, !.flag = rev]
    /\ Call("events_to_timestamp_image_torch")

Next ==
    \/ Call_events_to_image
    \/ Call_events_to_image_torch
    \/ Call_interpolate_to_image
    \/ Call_image_to_event_weights
    \/ Call_events_to_image_drv
    \/ Call_events_to_timestamp_image
    \/ Call_events_to_timestamp_image_torch

Spec == Init /\ [][Next]_vars

\* The same machine, one family of functions at a time, each on the inputs its
\* properties are about.  The inputs a family does not read are held fixed.
InitImage == InitOf(Sensors, XCoords, YCoords, Polarities, DTypes, FALSE)
NextImage == Call_events_to_image \/ Call_events_to_image_torch
SpecImage == InitImage /\ [][NextImage]_vars

\* whole coordinates inside the sensor only, on the small sensor and on the
\* sensor events_to_image_torch takes by default
InitWhole == InitOf(Sensors \cup {DefaultSensor}, WholeX, WholeY, Polarities, DTypes, FALSE)
SpecWhole == InitWhole /\ [][NextImage]_vars

InitKernel == InitOf(Sensors, XCoords, YCoords, Polarities, {"float"}, FALSE)
NextKernel == Call_interpolate_to_image \/ Call_image_to_event_weights
SpecKernel == InitKernel /\ [][NextKernel]_vars

NextDrv == Call_events_to_image_drv
SpecDrv == InitKernel /\ [][NextDrv]_vars

InitStamp == InitOf(Sensors, InsideX, InsideY, Polarities, {"float"}, TRUE)
NextStamp == Call_events_to_timestamp_image \/ Call_events_to_timestamp_image_torch
SpecStamp == InitStamp /\ [][NextStamp]_vars

\* ------------------------------------------------- vocabulary of the properties
EventIds == 1..Len(xs)
Returned == fn # "none" /\ out.raised = "none"
Without(s, k) == SubSeq(s, 1, k - 1) \o SubSeq(s, k + 1, Len(s))
NonNegative == \A k \in EventIds : xs[k] >= 0 /\ ys[k] >= 0
Whole == \A k \in EventIds : IsWhole(xs[k]) /\ IsWhole(ys[k])
\* 0 <= x <= W-1, 0 <= y <= H-1
InsideSensor ==
    \A k \in EventIds : /\ 0 <= xs[k] /\ xs[k] < sensor_size[2] * Sub
                        /\ 0 <= ys[k] /\ ys[k] < sensor_size[1] * Sub
\* 0 <= x < W-1, 0 <= y < H-1: all four taps of the kernel are on the sensor
StrictlyInside ==
    \A k \in EventIds : /\ 0 <= xs[k] /\ xs[k] < (sensor_size[2] - 1) * Sub
                        /\ 0 <= ys[k] /\ ys[k] < (sensor_size[1] - 1) * Sub
SensorCells == (0..(sensor_size[1] - 1)) \X (0..(sensor_size[2] - 1))

PlainSum == {"events_to_image", "events_to_image_torch"}
TimestampFns == {"events_to_timestamp_image", "events_to_timestamp_image_torch"}
KernelCallers == {"events_to_image_drv"} \cup TimestampFns
ClipEntryPoints == {"events_to_image_torch"} \cup KernelCallers

\* the grid a call allocates: events_to_image_torch pads in bilinear mode only,
\* the other entry points whenever padding is set
img_size_of(f, a, ss) ==
    IF f = "events_to_image_torch"
    THEN (IF a.interpolation = Bilinear /\ a.padding THEN Padded(ss) ELSE ss)
    ELSE (IF a.padding THEN Padded(ss) ELSE ss)

\* the clipping mask the call computes for the batch
MaskOf(f, a) ==
    clip_mask(xs, ys, img_size_of(f, a, sensor_size), a.clip_out_of_range, a.interpolation, a.padding)

\* the call runs the four-tap kernel; the bilinear branch of events_to_image always does
UsesKernel(f, a) == a.interpolation = Bilinear /\ (f = "events_to_image" \/ dtype # "long")
\* clipping is on; the bilinear branch of events_to_image switches it on itself
Clips(f, a) == IF f = "events_to_image" THEN a.interpolation = Bilinear ELSE a.clip_out_of_range
\* no event of the batch is masked by the last call, whose grid has the given shape
Unmasked(shape) ==
    LET mask == clip_mask(xs, ys, shape, Clips(fn, args), args.interpolation, args.padding)
    IN  \A k \in EventIds : mask[k] = 1

\* the cells event k lands on: its pixel, or the four taps around it
Footprint(k) ==
    IF UsesKernel(fn, args)
    THEN {<<Floor(ys[k]) + i, Floor(xs[k]) + j>> : i \in {0, 1}, j \in {0, 1}}
    ELSE {<<Floor(ys[k]), Floor(xs[k])>>}
Touched == UNION {Footprint(k) : k \in EventIds}

\* the events on pixel <<r, c>> and the sum of their weights
Landed(i) == {k \in EventIds : <<Floor(ys[k]), Floor(xs[k])>> = i}
WeightOn(i) == RSumSeq(Sq([k \in EventIds |-> IF k \in Landed(i) THEN RInt(ps[k]) ELSE RZero]))
DistinctPixels == \A i \in SensorCells : Cardinality(Landed(i)) <= 1

Flip(a) == [a EXCEPT !.interpolation = IF @ = Bilinear THEN None ELSE Bilinear]
\* the last call again, with the other interpolation mode
Flipped == Apply(fn, Flip(args), xs, ys, ps, ts, dtype, sensor_size)

IsConstant(t, v) == t.fill = v /\ DOMAIN t.cells = {}

\* ------------------------------------------------------------------- clipping
\* C1: with clip_out_of_range on, an event whose clipping mask is 0 adds nothing
\* to any output grid and the call does not raise: the call returns what it
\* returns on the batch without that event.
C1_MaskedEventAddsNothing ==
    \A k \in EventIds :
        (fn \in ClipEntryPoints /\ args.clip_out_of_range /\ MaskOf(fn, args)[k] = 0)
        => /\ out.raised = "none"
           /\ out = Apply(fn, args, Without(xs, k), Without(ys, k), Without(ps, k), Without(ts, k),
                          dtype, sensor_size)

\* ------------------------------------------------------------ plain accumulation
\* C2: plain-sum accumulation with no masked event, for any default: the sum of
\* all cells, less default times the number of cells no event touched, is the sum
\* of the event weights.
C2_WeightConserved ==
    (fn \in PlainSum /\ ~args.meanval /\ Returned /\ NonNegative /\ Unmasked(out.val.shape))
    => RSub(SumCells(out.val),
            RMul(RInt(args.default), RInt(NumCells(out.val) - Cardinality(Touched))))
       = RSumSeq(R(ps))

\* C8: plain accumulation without interpolation, for any default: the grid has the
\* shape sensor_size, a cell events land on holds the sum of their weights, every
\* other cell holds default.
C8_DirectScatter ==
    (fn \in PlainSum /\ args.interpolation = None /\ ~args.meanval /\ Returned /\ InsideSensor)
    => /\ out.val.shape = sensor_size
       /\ \A i \in SensorCells :
             Get(out.val, i[1], i[2]) = IF Landed(i) # {} THEN WeightOn(i) ELSE RInt(args.default)

\* C9: without interpolation, a batch with a negative coordinate makes the call
\* raise, in events_to_image and in events_to_image_torch, clipping on or off.
C9_NegativeRaises ==
    (fn \in PlainSum /\ args.interpolation = None /\ ~NonNegative) => out.raised # "none"

\* ------------------------------------------------- bilinear against direct mode
\* C3 as stated: with whole coordinates inside the sensor, the call with
\* interpolation 'bilinear' and the call with interpolation None, all else equal,
\* return the same grid (shape and cells), for both accumulation functions.
C3_SameGridAsStated ==
    (fn \in PlainSum /\ Whole /\ InsideSensor) => (out.raised = "none" /\ out = Flipped)

\* C3, amended: in events_to_image_torch with an unpadded grid and every event
\* at a whole pixel with 0 <= x <= W-2 and 0 <= y <= H-2, the bilinear call and
\* the None call return the same grid (shape and cells), whatever sensor_size,
\* default, weights, clipping and dtype are.
C3_SameGridAmended ==
    (fn = "events_to_image_torch" /\ ~args.padding /\ Whole /\ StrictlyInside)
    => (out.raised = "none" /\ out = Flipped)

C3_Witness ==
    /\ fn = "events_to_image_torch" /\ args.interpolation = Bilinear /\ ~args.padding
    /\ dtype = "float" /\ args.default = 1 /\ args.clip_out_of_range
    /\ Len(xs) = MaxEvents /\ Whole /\ StrictlyInside
    /\ out.raised = "none" /\ out = Flipped /\ DOMAIN out.val.cells # {}

\* -------------------------------------------------------- splat and read-out
\* the event read back is the only one, of weight 1, with all four taps on the grid
UnitRoundTrip ==
    fn = "image_to_event_weights" /\ Len(xs) = 1 /\ ps[1] = 1 /\ StrictlyInside

\* (1-d)^2 + d^2
TapSquares(d) == RAdd(RMul(RSub(ROne, d), RSub(ROne, d)), RMul(d, d))

\* C4 as stated: splatting one unit event at an in-range (x, y) into a zero grid
\* and reading the grid back at (x, y) returns 1.
C4_RoundTripIsOne ==
    UnitRoundTrip => (out.raised = "none" /\ out.val[1] = ROne)

\* C4, amended: the round trip returns ((1-dx)^2 + dx^2) * ((1-dy)^2 + dy^2) for
\* the fractional parts dx, dy of the coordinate: 1 at a whole pixel, less than 1
\* anywhere else.
C4_RoundTripIsTapSquares ==
    UnitRoundTrip
    => /\ out.raised = "none"
       /\ out.val[1] = RMul(TapSquares(Frac(xs[1])), TapSquares(Frac(ys[1])))
       /\ (IsWhole(xs[1]) /\ IsWhole(ys[1])) <=> (out.val[1] = ROne)

C4_Witness ==
    /\ UnitRoundTrip /\ ~IsWhole(xs[1]) /\ ~IsWhole(ys[1])
    /\ out.raised = "none" /\ out.val[1] # ROne /\ out.val[1] # RZero

\* ------------------------------------------------------------ mean accumulation
MeanOf(s, c, default) ==
    LET F(a, b) == IF b[1] > 0 THEN RDiv(a, b) ELSE default
    IN  Tensor(s.shape, F(s.fill, c.fill), Fn([i \in Support(s, c) |-> F(At(s, i), At(c, i))]))

\* the grid of C5 for the weights w: the kernel, the mask and the shape of the sum grid
MeanGrid(w) ==
    IF args.interpolation = Bilinear
    THEN events_to_image_torch(xs, ys, w, "float", DefaultSensor, TRUE, Bilinear, args.padding, RZero)
    ELSE Ok(bincount(xs, ys, w, sensor_size))

\* C5: mean accumulation in events_to_image, both interpolations, both paddings:
\* the count grid is the sum grid's kernel, mask and shape with weight 1 per
\* event, and every cell is sum / count where count > 0 and default elsewhere.
C5_MeanIsSumOverCount ==
    (fn = "events_to_image" /\ args.meanval /\ (args.interpolation = None => Returned))
    => out = Ok(MeanOf(MeanGrid(R(ps)).val, MeanGrid(OnesLike(xs)).val, RInt(args.default)))

\* ------------------------------------------------------------ timestamp surfaces
NormalizedTs ==
    IF fn = "events_to_timestamp_image" THEN normalize_np(ts, args.flag)
    ELSE normalize_torch(ts, args.flag)

\* C6: each timestamp surface is the splatted sum of its polarity's normalized
\* timestamps over the splatted count.  For events at distinct whole pixels the
\* count is 1: the surface of an event's polarity holds, at the event's pixel,
\* that event's normalized timestamp (t = [0, MaxTime]: 0 and 1 up to epsilon).
C6_TimestampMean ==
    (/\ fn \in TimestampFns /\ Returned /\ Whole /\ DistinctPixels
     /\ Unmasked(out.val.img_pos.shape))
    => \A k \in EventIds :
          Get(IF ps[k] > 0 THEN out.val.img_pos ELSE out.val.img_neg, Floor(ys[k]), Floor(xs[k]))
          = NormalizedTs[k]

\* a batch with no event, or whose weights are all zero (in timestamp mode the
\* weights are the timestamps counted from the first)
Degenerate ==
    \/ fn = "events_to_image" /\ args.meanval /\ \A k \in EventIds : ps[k] = 0
    \/ fn \in TimestampFns /\ \A k \in EventIds : ts[k] = ts[1]

\* C7: on a degenerate batch the mean-mode and timestamp-mode calls return without
\* raising, divide by zero nowhere, and every cell of every grid is default (0 for
\* the timestamp surfaces).
C7_DegenerateBatch ==
    (Degenerate /\ StrictlyInside /\ (fn = "events_to_image" /\ args.interpolation = None => dtype = "long"))
    => /\ out.raised = "none"
       /\ IF fn = "events_to_image" THEN IsConstant(out.val, RInt(args.default))
          ELSE IsConstant(out.val.img_pos, RZero) /\ IsConstant(out.val.img_neg, RZero)

\* ------------------------------------------------------------------ index safety
\* the four cells the kernel addresses for event k
Taps(k, mask) ==
    LET px == Floor(xs[k]) * mask[k]
        py == Floor(ys[k]) * mask[k]
    IN  {<<py, px>>, <<py, px + 1>>, <<py + 1, px>>, <<py + 1, px + 1>>}

InGrid(i, shape) == 0 <= i[1] /\ i[1] < shape[1] /\ 0 <= i[2] /\ i[2] < shape[2]

\* C10: with clipping on and no negative coordinate, for every interpolation and
\* padding, each of the four cells the kernel addresses is inside the allocated
\* grid, so that no call ends in an index error; the read-out is as safe.
C10_TapsInsideGrid ==
    /\ (/\ fn \in ClipEntryPoints /\ args.clip_out_of_range /\ NonNegative
        /\ (fn = "events_to_image_torch" => UsesKernel(fn, args)))
       => /\ \A k \in EventIds : \A i \in Taps(k, MaskOf(fn, args)) :
                InGrid(i, img_size_of(fn, args, sensor_size))
          /\ out.raised # "IndexError"
    /\ (fn = "image_to_event_weights" /\ NonNegative) => out.raised # "IndexError"

====
